---- MODULE Spec2Model ----
(***************************************************************************)
(* FindRival API (src/main.py, src/schemas.py): team registration, nearby  *)
(* search and the match-request lifecycle, over a document store.          *)
(*                                                                         *)
(* Encoding of values                                                      *)
(*   - A string that holds an id is an integer: n >= 1 is the 24-hex-digit *)
(*     string of the n-th ObjectId the store generated, 0 is the empty     *)
(*     string, a negative number is a non-empty string that is no          *)
(*     ObjectId ("abc").                                                   *)
(*   - An ObjectId value is the pair <<"oid", n>>.                         *)
(*   - Optional[x] is a sequence: <<>> is None, <<v>> is the value v.      *)
(*   - A location is a coordinate on one great circle, in half metres;     *)
(*     max_km is given in units of 0.0005 km (half a metre).               *)
(*   - Fields no handler branches on (name, owner_uid, address, players,   *)
(*     availability.days, proposed_time, notes) are left out of the        *)
(*     documents.                                                          *)
(***************************************************************************)
EXTENDS Integers, Sequences, FiniteSets, TLC

VARIABLES
    team,          \* collection "team": sequence of documents, insertion order
    matchrequest,  \* collection "matchrequest": sequence of documents
    pc,            \* per client: where its handler stands ("idle" between calls)
    call,          \* per client: the call in progress, or the last one made
    resp,          \* per client: the HTTP response of its last finished call
    fcm,           \* per client: which branch the notification block took in its call
    sent,          \* multicast messages handed to the push service that were accepted
    lastApplied,   \* history: per match request, the status of the last update_one applied
    repeated       \* history: the call begun last has the input of its client's previous call

vars == <<team, matchrequest, pc, call, resp, fcm, sent, lastApplied, repeated>>

Clients == {"c1", "c2"}

\* ------------------------------------------------------------------ bounds
MaxDocs == 3
MaxConcDocs == 2
MaxListTeams == 2
MaxListDocs == 103
MaxNearbyTeams == 51

\* ------------------------------------------------------- program constants
ListLimit == 100
NearbyLimit == 50

Statuses == {"pending", "accepted", "rejected", "confirmed"}
TransOps == {"accept", "reject", "confirm"}

\* ------------------------------------------------------------ bson / store
WellFormed(s) == s >= 1
InvalidId(s) == <<"InvalidId", s>>
ObjectId(s) == IF WellFormed(s) THEN <<"oid", s>> ELSE InvalidId(s)
IsOid(o) == o[1] = "oid"
Str(o) == o[2]

\* The store generates a fresh ObjectId for every inserted document; no
\* document is ever deleted, so the count of documents numbers them.
NewOid == <<"oid", Len(team) + Len(matchrequest) + 1>>

\* database.create_document(collection, model): insert the model's fields
\* with a fresh _id; the caller gets str(_id).
create_document(doc, oid) == [d \in DOMAIN doc \cup {"_id"} |->
                                 IF d = "_id" THEN oid ELSE doc[d]]

\* collection.find_one({"_id": oid}): the documents that match (none or one).
find_one(coll, oid) == {i \in DOMAIN coll : coll[i]._id = oid}

\* a guarded transition: only a pending request changes status
UpdateOneGuarded(coll, oid, s) ==
    [i \in DOMAIN coll |->
        IF coll[i]._id = oid /\ coll[i].status = "pending"
        THEN [coll[i] EXCEPT !.status = s] ELSE coll[i]]

\* a toggling transition: a request that has the status already goes back to
\* pending
UpdateOneToggle(coll, oid, s) ==
    [i \in DOMAIN coll |->
        IF coll[i]._id = oid
        THEN [coll[i] EXCEPT !.status = IF coll[i].status = s THEN "pending" ELSE s]
        ELSE coll[i]]

\* collection.update_one({"_id": oid}, {"$set": {"status": s}}): the collection
\* afterwards
update_one(coll, oid, s) ==
    [i \in DOMAIN coll |-> IF coll[i]._id = oid THEN [coll[i] EXCEPT !.status = s]
                                                  ELSE coll[i]]

\* Python truth of an Optional[str]: None and the empty string are false.
TruthyId(o) == o # <<>> /\ o[1] # 0
TruthyStr(o) == o # <<>> /\ o[1] # ""

\* cursor.limit(n)
Limit(s, n) == IF Len(s) <= n THEN s ELSE SubSeq(s, 1, n)

\* ------------------------------------------------------------- responses
NoResp == [op |-> "none", code |-> 0, body |-> <<>>, detail |-> 0]
Ok(op, body) == [op |-> op, code |-> 200, body |-> body, detail |-> 0]
NotFound(op, what) == [op |-> op, code |-> 404, body |-> <<>>, detail |-> what]
\* an exception no handler catches: the framework answers 500
ServerError(op) == [op |-> op, code |-> 500, body |-> <<>>, detail |-> 0]

NoTeam == [sport |-> "other", timeslot |-> <<"any">>, location |-> 0, device_tokens |-> <<>>]
NoReq == [from_team_id |-> 0, to_team_id |-> 0, status |-> "pending"]
NoQuery == [lng |-> 0, max_km |-> 0, sport |-> <<>>, timeslot |-> <<>>]
NoCall == [op |-> "none", team |-> NoTeam, req |-> NoReq, request_id |-> 0,
           team_id |-> <<>>, query |-> NoQuery, rid |-> 0]

NewCall(op) == [NoCall EXCEPT !.op = op]
\* the input of a call: everything but the id the store assigned during it
Input(k) == [k EXCEPT !.rid = 0]

\* sends that passed the first lookup and have not inserted yet
SendsInFlight == Cardinality({d \in Clients : pc[d] \in {"send_check_to", "send_insert"}})

\* the store may take one more document: fewer than max are stored or on
\* their way
Room(max) == Len(team) + Len(matchrequest) + SendsInFlight < max

\* c makes call k as its next step
Begin(c, k) ==
    /\ pc[c] = "idle"
    /\ repeated' = (Input(k) = Input(call[c]))
    /\ fcm' = [fcm EXCEPT ![c] = "none"]

Init ==
    /\ team = <<>>
    /\ matchrequest = <<>>
    /\ pc = [c \in Clients |-> "idle"]
    /\ call = [c \in Clients |-> NoCall]
    /\ resp = [c \in Clients |-> NoResp]
    /\ fcm = [c \in Clients |-> "none"]
    /\ sent = {}
    /\ lastApplied = <<>>
    /\ repeated = FALSE

\* ---------------------------------------------------------------- teams
TeamPublic(t) == [id |-> Str(t._id), sport |-> t.sport, location |-> t.location,
                  timeslot |-> t.timeslot]

\* POST /teams
create_team(c, t, max) ==
    /\ Room(max)
    /\ Begin(c, [NewCall("create_team") EXCEPT !.team = t])
    /\ LET doc == create_document(t, NewOid) IN
        /\ team' = Append(team, doc)
        /\ call' = [call EXCEPT ![c] = [NewCall("create_team") EXCEPT !.team = t,
                                                                     !.rid = Str(doc._id)]]
        /\ resp' = [resp EXCEPT ![c] = Ok("create_team", <<TeamPublic(doc)>>)]
    /\ UNCHANGED <<matchrequest, pc, sent, lastApplied>>

\* ------------------------------------------------------- match requests
MatchRequestPublic(id, from, to, status) ==
    [id |-> id, from_team_id |-> from, to_team_id |-> to, status |-> status]

_req_public(d) == MatchRequestPublic(Str(d._id), d.from_team_id, d.to_team_id, d.status)


\* One pass of the validation loop of send_match_request for team id tid:
\* the response that ends the call, or NoResp when the team was found.
TeamCheck(tid) ==
    IF ~IsOid(ObjectId(tid)) THEN ServerError("send")
    ELSE IF find_one(team, ObjectId(tid)) = {} THEN NotFound("send", tid)
    ELSE NoResp

\* POST /match-requests, first pass of the loop: from_team_id
send_check_from(c, req, max) ==
    /\ Room(max)
    /\ Begin(c, [NewCall("send") EXCEPT !.req = req])
    /\ call' = [call EXCEPT ![c] = [NewCall("send") EXCEPT !.req = req]]
    /\ IF TeamCheck(req.from_team_id) = NoResp
       THEN /\ pc' = [pc EXCEPT ![c] = "send_check_to"]
            /\ resp' = [resp EXCEPT ![c] = NoResp]
       ELSE /\ pc' = pc
            /\ resp' = [resp EXCEPT ![c] = TeamCheck(req.from_team_id)]
    /\ UNCHANGED <<team, matchrequest, sent, lastApplied>>

\* second pass of the loop: to_team_id
send_check_to(c) ==
    /\ pc[c] = "send_check_to"
    /\ IF TeamCheck(call[c].req.to_team_id) = NoResp
       THEN /\ pc' = [pc EXCEPT ![c] = "send_insert"]
            /\ resp' = resp
       ELSE /\ pc' = [pc EXCEPT ![c] = "idle"]
            /\ resp' = [resp EXCEPT ![c] = TeamCheck(call[c].req.to_team_id)]
    /\ UNCHANGED <<team, matchrequest, call, fcm, sent, lastApplied, repeated>>

\* rid = create_document("matchrequest", req)
send_insert(c) ==
    /\ pc[c] = "send_insert"
    /\ LET doc == create_document(call[c].req, NewOid) IN
        /\ matchrequest' = Append(matchrequest, doc)
        /\ lastApplied' = Append(lastApplied, "none")
        /\ call' = [call EXCEPT ![c].rid = Str(doc._id)]
    /\ pc' = [pc EXCEPT ![c] = "send_notify"]
    /\ UNCHANGED <<team, resp, fcm, sent, repeated>>

\* The try block of send_match_request under one outcome of its two calls
\* out ("ok", "lookup_raises", "push_raises"): <<branch taken, messages accepted>>.
Notify(k, outcome) ==
    LET found == find_one(team, ObjectId(k.req.to_team_id))
        tokens == IF found = {} THEN <<>>
                  ELSE team[CHOOSE i \in found : TRUE].device_tokens
    IN  IF outcome = "lookup_raises" THEN <<"lookup_failed", {}>>
        ELSE IF tokens = <<>> THEN <<"no_tokens", {}>>
        ELSE IF outcome = "push_raises" THEN <<"push_failed", {}>>
        ELSE <<"sent", {[tokens |-> tokens, type |-> "match_request", id |-> k.rid]}>>

\* send_match_request without the except clause: an exception of the lookup
\* or of the push service reaches the framework
SendResponseUncaught(k, branch) ==
    IF branch \in {"lookup_failed", "push_failed"} THEN ServerError("send")
    ELSE Ok("send", <<[id |-> k.rid, from_team_id |-> k.req.from_team_id,
                       to_team_id |-> k.req.to_team_id, status |-> k.req.status]>>)

\* What send_match_request answers after the try block.
SendResponse(k, branch) ==
    Ok("send", <<MatchRequestPublic(k.rid, k.req.from_team_id, k.req.to_team_id,
                                    k.req.status)>>)

\* the notification block and the return, under the outcomes of its calls out
\* that the environment is taken to produce
send_notify(c, outcomes) ==
    /\ pc[c] = "send_notify"
    /\ \E outcome \in outcomes :
        LET n == Notify(call[c], outcome) IN
        /\ fcm' = [fcm EXCEPT ![c] = n[1]]
        /\ sent' = sent \cup n[2]
        /\ resp' = [resp EXCEPT ![c] = SendResponse(call[c], n[1])]
    /\ pc' = [pc EXCEPT ![c] = "idle"]
    /\ UNCHANGED <<team, matchrequest, call, lastApplied, repeated>>

StatusOf(op) == CASE op = "accept" -> "accepted"
                  [] op = "reject" -> "rejected"
                  [] op = "confirm" -> "confirmed"

\* update_one and the matched_count test of accept / reject / confirm
TransitionUpdate(c, op, request_id) ==
    /\ Begin(c, [NewCall(op) EXCEPT !.request_id = request_id])
    /\ call' = [call EXCEPT ![c] = [NewCall(op) EXCEPT !.request_id = request_id]]
    /\ LET oid == ObjectId(request_id)
           hit == find_one(matchrequest, oid)
       IN  IF ~IsOid(oid)
           THEN /\ resp' = [resp EXCEPT ![c] = ServerError(op)]
                /\ UNCHANGED <<pc, matchrequest, lastApplied>>
           ELSE IF hit = {}
           THEN /\ resp' = [resp EXCEPT ![c] = NotFound(op, 0)]
                /\ UNCHANGED <<pc, matchrequest, lastApplied>>
           ELSE /\ matchrequest' = update_one(matchrequest, oid, StatusOf(op))
                /\ lastApplied' = [i \in DOMAIN lastApplied |->
                                     IF i \in hit THEN StatusOf(op) ELSE lastApplied[i]]
                /\ pc' = [pc EXCEPT ![c] = op]
                /\ resp' = [resp EXCEPT ![c] = NoResp]
    /\ UNCHANGED <<team, sent>>

\* a handler that answers with the status it wrote instead of the one it reads
RereadOwn(coll, k) ==
    LET hit == find_one(coll, ObjectId(k.request_id)) IN
    IF hit = {} THEN ServerError(k.op)
    ELSE LET d == coll[CHOOSE i \in hit : TRUE] IN
         Ok(k.op, <<[id |-> Str(d._id), from_team_id |-> d.from_team_id,
                     to_team_id |-> d.to_team_id, status |-> StatusOf(k.op)]>>)

\* What the handler answers from the re-read: find_one then _req_public.
Reread(coll, k) ==
    LET hit == find_one(coll, ObjectId(k.request_id)) IN
    IF hit = {} THEN ServerError(k.op)
    ELSE Ok(k.op, <<_req_public(coll[CHOOSE i \in hit : TRUE])>>)

\* req = db.matchrequest.find_one(...); return _req_public(req)
TransitionFind(c, op) ==
    /\ pc[c] = op
    /\ resp' = [resp EXCEPT ![c] = Reread(matchrequest, call[c])]
    /\ pc' = [pc EXCEPT ![c] = "idle"]
    /\ UNCHANGED <<team, matchrequest, call, fcm, sent, lastApplied, repeated>>

\* POST /match-requests/{request_id}/accept
accept_request(c, ids) ==
    \/ \E id \in ids : TransitionUpdate(c, "accept", id)
    \/ TransitionFind(c, "accept")

\* POST /match-requests/{request_id}/reject
reject_request(c, ids) ==
    \/ \E id \in ids : TransitionUpdate(c, "reject", id)
    \/ TransitionFind(c, "reject")

\* POST /match-requests/{request_id}/confirm
confirm_request(c, ids) ==
    \/ \E id \in ids : TransitionUpdate(c, "confirm", id)
    \/ TransitionFind(c, "confirm")

\* a filter that forgets the receiving side
ListQueryFromOnly(coll, team_id) ==
    LET Match(d) == d.from_team_id = team_id[1]
        All(d) == TRUE
    IN  Limit(IF TruthyId(team_id) THEN SelectSeq(coll, Match) ELSE SelectSeq(coll, All),
              ListLimit)

\* The documents list_match_requests reads for team_id.
ListQuery(coll, team_id) ==
    LET Match(d) == d.from_team_id = team_id[1] \/ d.to_team_id = team_id[1]
        All(d) == TRUE
    IN  Limit(IF TruthyId(team_id) THEN SelectSeq(coll, Match) ELSE SelectSeq(coll, All),
              ListLimit)

\* [_req_public(d) for d in docs]
RequestsPublic(docs) == [i \in DOMAIN docs |-> _req_public(docs[i])]

\* GET /match-requests?team_id=
list_match_requests(c, team_id) ==
    /\ Begin(c, [NewCall("list") EXCEPT !.team_id = team_id])
    /\ call' = [call EXCEPT ![c] = [NewCall("list") EXCEPT !.team_id = team_id]]
    /\ resp' = [resp EXCEPT ![c] = Ok("list", RequestsPublic(ListQuery(matchrequest, team_id)))]
    /\ UNCHANGED <<team, matchrequest, pc, sent, lastApplied>>

Outcomes == {"ok", "lookup_raises", "push_raises"}

\* ---------------------------------------------------------- nearby search
Abs(x) == IF x < 0 THEN 0 - x ELSE x

\* distance between two locations, in half metres
Distance(a, b) == Abs(a - b)

\* a radius rounded up to the next metre instead of cut
MaxDistanceCeil(max_km) == 2 * ((max_km + 1) \div 2)

\* "$maxDistance": int(max_km * 1000), metres, as half metres
\* (max_km is given in half metres; int() drops the fraction).
MaxDistance(max_km) == 2 * (max_km \div 2)

\* "$near": the documents of s at distance d to max from p, nearest first
\* (documents as near as each other in store order)
RECURSIVE NearestFirst(_, _, _, _)
NearestFirst(s, p, d, max) ==
    LET At(t) == Distance(t.location, p) = d
    IN  IF d > max THEN <<>>
        ELSE SelectSeq(s, At) \o NearestFirst(s, p, d + 1, max)

\* the filter nearby_teams builds, applied to one document
NearbyFilter(t, q) ==
    /\ Distance(t.location, q.lng) <= MaxDistance(q.max_km)
    /\ TruthyStr(q.sport) => t.sport = q.sport[1]
    /\ TruthyStr(q.timeslot) => t.timeslot = q.timeslot

\* db.team.find(filt).limit(50)
NearbyQuery(coll, q) ==
    LET Keep(t) == NearbyFilter(t, q)
    IN  Limit(NearestFirst(SelectSeq(coll, Keep), q.lng, 0, MaxDistance(q.max_km)),
              NearbyLimit)

\* the loop that builds the response of nearby_teams
TeamsPublic(docs) == [i \in DOMAIN docs |-> TeamPublic(docs[i])]

\* GET /teams/nearby
nearby_teams(c, q) ==
    /\ Begin(c, [NewCall("nearby") EXCEPT !.query = q])
    /\ call' = [call EXCEPT ![c] = [NewCall("nearby") EXCEPT !.query = q]]
    /\ resp' = [resp EXCEPT ![c] = Ok("nearby", TeamsPublic(NearbyQuery(team, q)))]
    /\ UNCHANGED <<team, matchrequest, pc, sent, lastApplied>>

\* ------------------------------------------------------------- inputs
Team(sport, timeslot, location, tokens) ==
    [sport |-> sport, timeslot |-> timeslot, location |-> location, device_tokens |-> tokens]

MatchRequest(from, to, status) ==
    [from_team_id |-> from, to_team_id |-> to, status |-> status]

Query(lng, max_km, sport, timeslot) ==
    [lng |-> lng, max_km |-> max_km, sport |-> sport, timeslot |-> timeslot]

\* ids a caller may pass: the ids of the documents of a collection, an id
\* the store has not generated yet, and a string that is no ObjectId
IdsOf(coll) == {Str(coll[i]._id) : i \in DOMAIN coll}
IdInputs(coll) == IdsOf(coll) \cup {Str(NewOid), 0 - 1}

TeamIds == IdsOf(team)
ReqIds == IdsOf(matchrequest)

\* ------------------------- one client: registration and the lifecycle
TeamInputs == {Team("soccer", <<"any">>, 0, tokens) : tokens \in {<<>>, <<"tok">>}}
ReqInputs == {MatchRequest(from, to, status) :
                from \in IdInputs(team), to \in IdInputs(team),
                status \in {"pending", "accepted"}}

Next ==
    \E c \in {"c1"} :
        \/ \E t \in TeamInputs : create_team(c, t, MaxDocs)
        \/ \E r \in ReqInputs : send_check_from(c, r, MaxDocs)
        \/ send_check_to(c)
        \/ send_insert(c)
        \/ send_notify(c, Outcomes)
        \/ accept_request(c, IdInputs(matchrequest))
        \/ reject_request(c, IdInputs(matchrequest))
        \/ confirm_request(c, IdInputs(matchrequest))

Spec == Init /\ [][Next]_vars

\* ------------------------------- two clients, the match-request lifecycle
NextConcurrent ==
    \E c \in Clients :
        \/ create_team(c, Team("soccer", <<"any">>, 0, <<>>), MaxConcDocs)
        \/ send_check_from(c, MatchRequest(1, 1, "pending"), MaxConcDocs)
        \/ send_check_to(c)
        \/ send_insert(c)
        \/ send_notify(c, Outcomes)
        \/ accept_request(c, IdsOf(matchrequest))
        \/ reject_request(c, IdsOf(matchrequest))
        \/ confirm_request(c, IdsOf(matchrequest))

SpecConcurrent == Init /\ [][NextConcurrent]_vars

\* ------------------------------- one client, many match requests, lists
\* The first request is from the first team to the newest; the later ones
\* are from the newest team to itself.
ListReqInputs ==
    IF matchrequest = <<>>
    THEN {MatchRequest(1, Len(team), "pending")}
    ELSE {MatchRequest(Len(team), Len(team), "pending")}

\* team ids a caller may list by: the stored teams, and a string that is no
\* ObjectId
ListInputs == {<<0 - 1>>} \cup {<<id>> : id \in TeamIds}

FirstRequest == {Str(matchrequest[i]._id) : i \in DOMAIN matchrequest \cap {1}}

NextList ==
    \E c \in {"c1"} :
        \/ create_team(c, Team("soccer", <<"any">>, 0, <<>>), MaxListTeams)
        \/ \E r \in ListReqInputs : send_check_from(c, r, MaxListDocs)
        \/ send_check_to(c)
        \/ send_insert(c)
        \/ send_notify(c, {"ok"})
        \/ accept_request(c, FirstRequest)
        \/ reject_request(c, FirstRequest)
        \/ confirm_request(c, FirstRequest)
        \/ \E x \in ListInputs : list_match_requests(c, x)

SpecList == Init /\ [][NextList]_vars

\* ------------------------------------- one client, many teams, searches
\* The first two teams differ in sport, timeslot and place; the later ones
\* are alike.
NearbyTeamInputs ==
    IF Len(team) < 2
    THEN {Team("soccer", <<"morning">>, 0, <<>>), Team("tennis", <<"any">>, 3, <<>>),
          Team("soccer", <<"any">>, 6, <<>>), Team("tennis", <<"morning">>, 4, <<>>)}
    ELSE {Team("soccer", <<"any">>, 2, <<>>)}

\* max_km 3 is 1.5 m (a radius of 1 m after int()), 8 is 4 m
QueryInputs ==
    {Query(0, 3, <<>>, <<>>), Query(0, 8, <<>>, <<>>), Query(5, 8, <<>>, <<>>),
     Query(0, 8, <<"soccer">>, <<>>), Query(5, 3, <<"tennis">>, <<>>),
     Query(0, 8, <<>>, <<"any">>), Query(5, 8, <<"soccer">>, <<"morning">>),
     Query(0, 12, <<"soccer">>, <<"any">>)}

NextNearby ==
    \E c \in {"c1"} :
        \/ \E t \in NearbyTeamInputs : create_team(c, t, MaxNearbyTeams)
        \/ \E q \in QueryInputs : nearby_teams(c, q)

SpecNearby == Init /\ [][NextNearby]_vars

\* ================================================================ claims
\* c's last call was op and has been answered
Done(c, op) == pc[c] = "idle" /\ call[c].op = op /\ resp[c].op = op

\* the stored match requests with id (a string)
Stored(id) == {i \in DOMAIN matchrequest : Str(matchrequest[i]._id) = id}

\* the device tokens of the team with id
TokensOf(id) == {team[i].device_tokens : i \in find_one(team, ObjectId(id))}

StoreUnchanged == team' = team /\ matchrequest' = matchrequest

\* C1: a send call that succeeds answers with status "pending" and stores
\* status "pending", whatever status the caller supplied.
C1_SendForcesPending ==
    \A c \in Clients :
        Done(c, "send") /\ resp[c].code = 200 =>
            /\ resp[c].body[1].status = "pending"
            /\ \A i \in Stored(call[c].rid) : matchrequest[i].status = "pending"

\* C2: a send call whose from-team id or to-team id matches no team (an id
\* that is no ObjectId included) answers 404 naming the first missing id,
\* persists no match request and dispatches no notification.
C2_SendMissingTeamIs404 ==
    \A c \in Clients :
        LET r == call[c].req IN
        Done(c, "send") /\ (r.from_team_id \notin TeamIds \/ r.to_team_id \notin TeamIds) =>
            /\ resp[c].code = 404
            /\ resp[c].detail = IF r.from_team_id \notin TeamIds THEN r.from_team_id
                                                                ELSE r.to_team_id
            /\ call[c].rid = 0
            /\ fcm[c] = "none"

\* C3: accept, reject and confirm on an existing match request succeed
\* whatever its status, and leave it stored, and answered, with status
\* accepted, rejected and confirmed respectively.
C3_TransitionsUnconditional ==
    \A c \in Clients : \A op \in TransOps :
        Done(c, op) /\ call[c].request_id \in ReqIds =>
            /\ resp[c].code = 200
            /\ resp[c].body[1].status = StatusOf(op)
            /\ \A i \in Stored(call[c].request_id) : matchrequest[i].status = StatusOf(op)

\* a reject of a request that the same reject had already set to rejected has
\* succeeded again
C3_Witness ==
    /\ repeated /\ Done("c1", "reject") /\ resp["c1"].code = 200
    /\ \E i \in Stored(call["c1"].request_id) : matchrequest[i].status = "rejected"

\* C4: an accept, reject or confirm call with an id that matches no stored
\* match request (an id that is no ObjectId included) answers 404 and leaves
\* every stored match request and team unchanged.
C4_TransitionMissingIs404 ==
    [][\A c \in Clients : \A op \in TransOps : \A id \in (0 - 1) .. (MaxDocs + 1) :
         TransitionUpdate(c, op, id) /\ id \notin ReqIds =>
            resp'[c].code = 404 /\ StoreUnchanged]_vars

\* C6: a send whose two teams exist persists the request before the
\* notification block, and answers 200 with the persisted request whether
\* the target has no tokens, the lookup raises or the push raises; a message
\* is dispatched only to a target team that has device tokens.
C6_NotifyNeverFailsSend ==
    /\ \A c \in Clients :
        LET r == call[c].req IN
        /\ pc[c] = "send_notify" => call[c].rid \in ReqIds
        /\ Done(c, "send") /\ r.from_team_id \in TeamIds /\ r.to_team_id \in TeamIds =>
              /\ resp[c].code = 200
              /\ resp[c].body[1].id = call[c].rid
              /\ call[c].rid \in ReqIds
              /\ fcm[c] \in {"no_tokens", "lookup_failed", "push_failed", "sent"}
              /\ fcm[c] = "sent" => TokensOf(r.to_team_id) # {<<>>}
              /\ fcm[c] = "no_tokens" => TokensOf(r.to_team_id) = {<<>>}
    /\ \A m \in sent :
        /\ m.tokens # <<>>
        /\ \E i \in Stored(m.id) : TokensOf(matchrequest[i].to_team_id) = {m.tokens}

\* a send to a team with tokens whose push raised has answered 200
C6_Witness ==
    /\ Done("c1", "send") /\ resp["c1"].code = 200
    /\ fcm["c1"] = "push_failed"
    /\ call["c1"].rid \in ReqIds

\* C8 as claimed: register, send, accept, reject and confirm are idempotent:
\* the same call issued again leaves teams and match requests as they are.
C8_EveryOperationIdempotent == [][repeated' => StoreUnchanged]_vars

\* C8 as amended: accept, reject and confirm are idempotent: the same call
\* issued again leaves teams and match requests as they are.
C8_TransitionsIdempotent ==
    [][repeated' /\ call'["c1"].op \in TransOps => StoreUnchanged]_vars

\* an accept of an existing request has been repeated and has succeeded
C8_Witness ==
    /\ repeated /\ Done("c1", "accept") /\ resp["c1"].code = 200

\* C5: concurrent accept / reject / confirm calls on existing match requests
\* all succeed under every interleaving of their update and re-read steps,
\* and the stored status of a request is the value of the update applied to
\* it last.
C5_LastWriteWins ==
    /\ \A i \in DOMAIN matchrequest :
          lastApplied[i] # "none" => matchrequest[i].status = lastApplied[i]
    /\ \A c \in Clients : \A op \in TransOps :
          /\ pc[c] = op => call[c].request_id \in ReqIds
          /\ Done(c, op) => resp[c].code = 200

\* an accept by c1 and a reject by c2 of one request ran interleaved (the
\* accept re-read the reject's write); both succeeded and the reject's write
\* is the stored status
C5_Witness ==
    /\ Done("c1", "accept") /\ Done("c2", "reject")
    /\ call["c1"].request_id = call["c2"].request_id
    /\ resp["c1"].code = 200 /\ resp["c2"].code = 200
    /\ resp["c1"].body[1].status = "rejected"
    /\ \A i \in Stored(call["c1"].request_id) : matchrequest[i].status = "rejected"

\* C10 as claimed: the response of a successful accept (reject, confirm)
\* carries status accepted (rejected, confirmed), the value the call wrote.
C10_ResponseCarriesOwnWrite ==
    \A c \in Clients : \A op \in TransOps :
        Done(c, op) /\ resp[c].code = 200 => resp[c].body[1].status = StatusOf(op)

\* C10 as amended: the response of an accept, reject or confirm call that
\* matched a request is a success and carries the status the request has in
\* the store at the call's re-read, which is the value of the transition
\* update applied to it last before the re-read.
C10_ResponseCarriesLastWrite ==
    [][\A c \in Clients : \A op \in TransOps :
         TransitionFind(c, op) =>
            /\ resp'[c].code = 200
            /\ \A i \in Stored(call[c].request_id) :
                  resp'[c].body[1].status = lastApplied[i]]_vars

\* a confirm has answered with the status another call wrote
C10_Witness ==
    /\ Done("c2", "confirm") /\ resp["c2"].code = 200
    /\ resp["c2"].body[1].status = "accepted"

\* the match requests, as answered, that team id x takes part in
Participating(x) ==
    {_req_public(matchrequest[i]) :
        i \in {j \in DOMAIN matchrequest : \/ matchrequest[j].from_team_id = x
                                           \/ matchrequest[j].to_team_id = x}}

Body(c) == {resp[c].body[i] : i \in DOMAIN resp[c].body}

Min(a, b) == IF a <= b THEN a ELSE b

\* C7 as claimed: list with team_id = X answers exactly the stored match
\* requests whose from_team_id or to_team_id is X.
C7_ListExactlyParticipating ==
    \A c \in Clients :
        Done(c, "list") /\ call[c].team_id # <<>> =>
            Body(c) = Participating(call[c].team_id[1])

\* C7 as amended: list with team_id = X answers only stored match requests
\* whose from_team_id or to_team_id is X, each once: all of them when they
\* are at most 100, and 100 of them otherwise.
C7_ListParticipatingCapped ==
    \A c \in Clients :
        Done(c, "list") /\ TruthyId(call[c].team_id) =>
            /\ resp[c].code = 200
            /\ Body(c) \subseteq Participating(call[c].team_id[1])
            /\ Cardinality(Body(c)) = Len(resp[c].body)
            /\ Len(resp[c].body) =
                 Min(Cardinality(Participating(call[c].team_id[1])), ListLimit)

\* a list by a team that takes part in more than 100 requests, one of them
\* confirmed, has answered 100
C7_Witness ==
    /\ Done("c1", "list") /\ TruthyId(call["c1"].team_id)
    /\ Cardinality(Participating(call["c1"].team_id[1])) > ListLimit
    /\ Len(resp["c1"].body) = ListLimit
    /\ \E r \in Body("c1") : r.status = "confirmed"

\* C9: nearby answers at most 50 teams, each a registered team within max_km
\* of the query point that has the sport and the timeslot asked for, nearest
\* first.
C9_NearbyFiltersOrdersCaps ==
    \A c \in Clients :
        Done(c, "nearby") =>
            LET q == call[c].query
                b == resp[c].body
            IN  /\ resp[c].code = 200
                /\ Len(b) <= NearbyLimit
                /\ \A i \in DOMAIN b :
                      /\ \E j \in DOMAIN team : TeamPublic(team[j]) = b[i]
                      /\ Distance(b[i].location, q.lng) <= q.max_km
                      /\ q.sport # <<>> => b[i].sport = q.sport[1]
                      /\ q.timeslot # <<>> => b[i].timeslot = q.timeslot
                /\ \A i, j \in DOMAIN b :
                      i < j => Distance(b[i].location, q.lng) <= Distance(b[j].location, q.lng)

\* a search with a sport filter that more than 50 teams pass has answered 50,
\* a team registered later before one registered earlier
C9_Witness ==
    /\ Done("c1", "nearby") /\ call["c1"].query.sport # <<>>
    /\ Len(resp["c1"].body) = NearbyLimit
    /\ Len(team) > NearbyLimit
    /\ \E i, j \in DOMAIN resp["c1"].body :
          i < j /\ resp["c1"].body[i].id > resp["c1"].body[j].id

====
